---- MODULE Spec2Model ----
(***************************************************************************)
(* Safety-gated fix pipeline of agi-engineer: RuleClassifier               *)
(* (agent/rule_classifier.py), FixOrchestrator (agent/fix_orchestrator.py),*)
(* SafetyChecker (agent/safety_checker.py), run_ruff (agent/analyze.py),   *)
(* main of agi_engineer_v3.py and the analysis tasks of the backend        *)
(* (backend/app/tasks/analysis_tasks.py).                                  *)
(*                                                                         *)
(* Five specifications share the variables:                                *)
(*   SpecPlan      the classifier and the planner applied to an issue list *)
(*   SpecChecker   the SafetyChecker object under arbitrary call sequences *)
(*   SpecExecute   execute_plan calls on a working tree                    *)
(*   SpecPipeline  one run of the v3 pipeline, step by step                *)
(*   SpecTasks     two analysis tasks of the backend, side by side         *)
(***************************************************************************)
EXTENDS Integers, Sequences, FiniteSets, TLC

VARIABLES
    SAFE_RULES, RISKY_RULES, SUGGEST_RULES, \* RuleClassifier class tables
    all_rules,                              \* RuleClassifier.all_rules
    issues, safety_mode,                    \* arguments handed to the planner
    initial_scan, final_scan,               \* SafetyChecker fields
    op, arg, ret,                           \* last call, its argument (of record_*: the kind of
                                            \* output the scan tool gave it), its return value
    classified,                             \* history: first classify() result per code
    repeat,                                 \* history: the last call was classify() of a code classified before,
                                            \*          or check_regressions() right after check_regressions()
    called, first,                          \* history: record_* calls made, and the first one
    tree,                                   \* the working tree, as the findings a scan of it lists
    fixer_requests,                         \* commands sent to the external fixer (by the last
                                            \* execute_plan call; in a pipeline run: by the run)
    pc, args,                               \* v3 main: where the run is, its command-line flags
    fixer,                                  \* the fixer process subprocess.run started
    plan, regression_report,                \* v3 main: its locals plan and regression_report
    outcome,                                \* v3 main: the exit status returned, and why
    events,                                 \* history: scans, fixer steps and checks of the run, in order
    tasks,                                  \* the run_code_analysis tasks of the Celery workers
    worktrees                               \* the checkouts under /tmp/agi_engineer_repos, by path

vars == <<SAFE_RULES, RISKY_RULES, SUGGEST_RULES, all_rules, issues, safety_mode,
          initial_scan, final_scan, op, arg, ret, classified, repeat, called, first,
          tree, fixer_requests, pc, args, fixer, plan, regression_report, outcome, events,
          tasks, worktrees>>

classifierVars == <<SAFE_RULES, RISKY_RULES, SUGGEST_RULES, all_rules>>
checkerVars == <<initial_scan, final_scan, called, first>>
runVars == <<tree, fixer_requests>>
taskVars == <<tasks, worktrees>>
pipeVars == <<pc, args, fixer, plan, regression_report, outcome, events, taskVars>>

----------------------------------------------------------------------------
(* Bounds *)

MaxIssues == 2      \* longest issue list / snapshot

----------------------------------------------------------------------------
(* Python values *)

None == <<>>                    \* Optional values: None, or Some(v) = <<v>>
Some(v) == <<v>>

\* {**a, **b}: the keys of both, b's value winning
Merge(a, b) ==
    [k \in (DOMAIN a) \cup (DOMAIN b) |-> IF k \in DOMAIN b THEN b[k] ELSE a[k]]

Restrict(f, keys) == [k \in keys |-> f[k]]

Range(s) == {s[i] : i \in DOMAIN s}

\* the return value of a call that raised
Raised(exc) == [raised |-> exc]

\* the return value of a call that returned v
Returned(v) == [returned |-> v]

SeqsUpTo(S, n) == UNION {[1..k -> S] : k \in 0..n}

----------------------------------------------------------------------------
(* RuleClassifier *)

\* enum RuleCategory and its .value
RuleCategory == [SAFE |-> "RuleCategory.SAFE", RISKY |-> "RuleCategory.RISKY",
                 SUGGEST |-> "RuleCategory.SUGGEST"]

value(category) ==
    CASE category = RuleCategory.SAFE -> "safe"
      [] category = RuleCategory.RISKY -> "risky"
      [] category = RuleCategory.SUGGEST -> "suggest"

SAFE_RULES_0 ==
    ("F401" :> [name |-> "Unused import", safety |-> 100]) @@
    ("F541" :> [name |-> "Useless f-string", safety |-> 100]) @@
    ("W291" :> [name |-> "Trailing whitespace", safety |-> 100]) @@
    ("W292" :> [name |-> "No newline at EOF", safety |-> 100]) @@
    ("W293" :> [name |-> "Blank line with whitespace", safety |-> 100]) @@
    ("E701" :> [name |-> "Multiple statements on one line", safety |-> 100]) @@
    ("E702" :> [name |-> "Unnecessary semicolon", safety |-> 100]) @@
    ("E711" :> [name |-> "Comparison to None", safety |-> 100]) @@
    ("E712" :> [name |-> "Comparison to True/False", safety |-> 100])

RISKY_RULES_0 ==
    ("F841" :> [name |-> "Unused variable", safety |-> 50]) @@
    ("E501" :> [name |-> "Line too long", safety |-> 30]) @@
    ("C901" :> [name |-> "Function too complex", safety |-> 20]) @@
    ("F401" :> [name |-> "Unused import with side effects", safety |-> 40])

SUGGEST_RULES_0 ==
    ("D100" :> [name |-> "Missing module docstring", safety |-> 0]) @@
    ("D101" :> [name |-> "Missing class docstring", safety |-> 0]) @@
    ("D102" :> [name |-> "Missing function docstring", safety |-> 0]) @@
    ("D103" :> [name |-> "Missing method docstring", safety |-> 0])

\* RuleClassifier.__init__: {**SAFE_RULES, **RISKY_RULES, **SUGGEST_RULES}
RuleClassifier_init(safe, risky, suggest) == Merge(Merge(safe, risky), suggest)

\* a plausible slip: the RISKY table is consulted before the SAFE table
classify_risky_first(rule_code) ==
    IF rule_code \in DOMAIN RISKY_RULES
    THEN Merge([code |-> rule_code, category |-> RuleCategory.RISKY,
                safety_score |-> RISKY_RULES[rule_code].safety],
               RISKY_RULES[rule_code])
    ELSE IF rule_code \in DOMAIN SAFE_RULES
    THEN Merge([code |-> rule_code, category |-> RuleCategory.SAFE,
                safety_score |-> 100],
               SAFE_RULES[rule_code])
    ELSE [code |-> rule_code, category |-> RuleCategory.SUGGEST,
          safety_score |-> 0, name |-> "Rule " \o rule_code]

\* a plausible slip: the fallback takes an unknown code for a safe one
classify_unknown_safe(rule_code) ==
    IF rule_code \in DOMAIN SAFE_RULES
    THEN Merge([code |-> rule_code, category |-> RuleCategory.SAFE,
                safety_score |-> 100],
               SAFE_RULES[rule_code])
    ELSE IF rule_code \in DOMAIN RISKY_RULES
    THEN Merge([code |-> rule_code, category |-> RuleCategory.RISKY,
                safety_score |-> RISKY_RULES[rule_code].safety],
               RISKY_RULES[rule_code])
    ELSE [code |-> rule_code, category |-> RuleCategory.SAFE,
          safety_score |-> 100, name |-> "Rule " \o rule_code]

\* RuleClassifier.classify
classify(rule_code) ==
    IF rule_code \in DOMAIN SAFE_RULES
    THEN Merge([code |-> rule_code, category |-> RuleCategory.SAFE,
                safety_score |-> 100],
               SAFE_RULES[rule_code])
    ELSE IF rule_code \in DOMAIN RISKY_RULES
    THEN Merge([code |-> rule_code, category |-> RuleCategory.RISKY,
                safety_score |-> RISKY_RULES[rule_code].safety],
               RISKY_RULES[rule_code])
    ELSE [code |-> rule_code, category |-> RuleCategory.SUGGEST,
          safety_score |-> 0, name |-> "Rule " \o rule_code]

\* the loop of group_by_category from position k on
RECURSIVE group_loop(_, _, _)
group_loop(iss, k, grouped) ==
    IF k > Len(iss) THEN grouped
    ELSE LET classified_k == classify(iss[k].code)
             category == value(classified_k.category)
         IN  group_loop(iss, k + 1,
                 [grouped EXCEPT ![category] =
                      Append(@, Merge(iss[k], classified_k))])

\* a plausible slip: only issues whose code is in all_rules are grouped
group_by_category_known_only(iss) ==
    LET known(issue) == issue.code \in DOMAIN all_rules
    IN  group_loop(SelectSeq(iss, known), 1, [safe |-> <<>>, risky |-> <<>>, suggest |-> <<>>])

\* RuleClassifier.group_by_category
group_by_category(iss) ==
    group_loop(iss, 1, [safe |-> <<>>, risky |-> <<>>, suggest |-> <<>>])

\* a plausible slip: issue.update(classified) instead of {**issue, **classified}
group_by_category_args_inplace(iss) ==
    [k \in 1..Len(iss) |-> Merge(iss[k], classify(iss[k].code))]

\* the caller's issue list after group_by_category returned: each grouped
\* entry is a new dict, the issues passed in are not written
group_by_category_args(iss) == iss

\* RuleClassifier.get_summary
get_summary(iss) ==
    LET grouped == group_by_category(iss)
    IN  [total |-> Len(iss),
         safe |-> Len(grouped.safe),
         risky |-> Len(grouped.risky),
         suggest |-> Len(grouped.suggest),
         auto_fixable |-> Len(grouped.safe),
         grouped |-> grouped]

----------------------------------------------------------------------------
(* FixOrchestrator *)

\* the fix_counts loop of plan_fixes from position k on
RECURSIVE fix_counts_loop(_, _, _)
fix_counts_loop(to_fix, k, fix_counts) ==
    IF k > Len(to_fix) THEN fix_counts
    ELSE LET code == to_fix[k].code
         IN  fix_counts_loop(to_fix, k + 1,
                 IF code \in DOMAIN fix_counts
                 THEN [fix_counts EXCEPT ![code] = @ + 1]
                 ELSE fix_counts @@ (code :> 1))

\* a plausible slip: the statistics loop runs over every issue
plan_summary_counts_all_issues(iss, to_fix, to_review, to_suggest) ==
    [total_issues |-> Len(iss),
     will_fix |-> Len(to_fix),
     needs_review |-> Len(to_review),
     suggestions |-> Len(to_suggest),
     fixes_by_rule |-> fix_counts_loop(iss, 1, <<>>)]

\* plan['summary'] = {...}
plan_summary(iss, to_fix, to_review, to_suggest) ==
    [total_issues |-> Len(iss),
     will_fix |-> Len(to_fix),
     needs_review |-> Len(to_review),
     suggestions |-> Len(to_suggest),
     fixes_by_rule |-> fix_counts_loop(to_fix, 1, <<>>)]

\* the plan dict as returned
plan_dict(iss, to_fix, to_review, to_suggest) ==
    [to_fix |-> to_fix, to_review |-> to_review, to_suggest |-> to_suggest,
     summary |-> plan_summary(iss, to_fix, to_review, to_suggest)]

\* a plausible slip: the 'all' branch forgets the suggestions
plan_fixes_all_drops_suggest(iss, mode) ==
    LET grouped == group_by_category(iss)
    IN  IF mode = "safe" \/ mode = "smart"
        THEN plan_dict(iss, grouped.safe, grouped.risky, grouped.suggest)
        ELSE IF mode = "all"
        THEN plan_dict(iss, grouped.safe \o grouped.risky, <<>>, <<>>)
        ELSE plan_dict(iss, grouped.safe, <<>>, <<>>)

\* a plausible slip: 'smart' auto-fixes the risky issues as 'all' does
plan_fixes_smart_fixes_risky(iss, mode) ==
    LET grouped == group_by_category(iss)
    IN  IF mode = "safe"
        THEN plan_dict(iss, grouped.safe, grouped.risky, grouped.suggest)
        ELSE IF mode = "smart" \/ mode = "all"
        THEN plan_dict(iss, grouped.safe \o grouped.risky, <<>>, grouped.suggest)
        ELSE plan_dict(iss, grouped.safe, <<>>, <<>>)

\* a plausible slip: 'all' sends the risky issues to review as 'safe' does
plan_fixes_all_reviews_risky(iss, mode) ==
    LET grouped == group_by_category(iss)
    IN  IF mode = "safe" \/ mode = "smart" \/ mode = "all"
        THEN plan_dict(iss, grouped.safe, grouped.risky, grouped.suggest)
        ELSE plan_dict(iss, grouped.safe, <<>>, <<>>)

\* FixOrchestrator.plan_fixes
plan_fixes(iss, mode) ==
    LET grouped == group_by_category(iss)
        to_fix0 == grouped.safe                    \* always include safe rules
    IN  IF mode = "safe"
        THEN plan_dict(iss, to_fix0, grouped.risky, grouped.suggest)
        ELSE IF mode = "smart"
        THEN plan_dict(iss, to_fix0, grouped.risky, grouped.suggest)
        ELSE IF mode = "all"
        THEN plan_dict(iss, to_fix0 \o grouped.risky, <<>>, grouped.suggest)
        ELSE plan_dict(iss, to_fix0, <<>>, <<>>)

\* the command line execute_plan builds: sys.executable -m ruff check . --fix
\* --exit-zero, whatever the safety mode
execute_plan_cmd(mode) ==
    <<"python", "-m", "ruff", "check", ".", "--fix", "--exit-zero">>

\* FixOrchestrator.execute_plan, given what subprocess.run did with the
\* command: the commands sent to the fixer and the value returned; a fault
\* of subprocess.run is not caught
execute_plan(mode, result) ==
    [requests |-> <<execute_plan_cmd(mode)>>,
     ret |-> IF result.kind = "fault" THEN Raised(result.exc)
             ELSE Returned(result.returncode = 0)]

----------------------------------------------------------------------------
(* Inputs of the planner specification *)

\* one code per lookup outcome: SAFE table, and RISKY table too (F401),
\* RISKY table (F841), SUGGEST table (D100), no table (X999)
RuleCodes == {"F401", "F841", "D100", "X999"}

\* two lines, so that a rule code can have two instances
Lines == {1, 2}

SafetyModes == {"safe", "smart", "all", "aggressive"}

\* issue records as agent/analyze.py run_ruff builds them
Issue == [filename : {"/repo/file.py"}, line : Lines,
          code : RuleCodes, message : {"msg"}]

IssueKeys == {"filename", "line", "code", "message"}

InitClassifier ==
    /\ SAFE_RULES = SAFE_RULES_0
    /\ RISKY_RULES = RISKY_RULES_0
    /\ SUGGEST_RULES = SUGGEST_RULES_0
    /\ all_rules = RuleClassifier_init(SAFE_RULES_0, RISKY_RULES_0, SUGGEST_RULES_0)

InitRun ==
    /\ tree = <<>>
    /\ fixer_requests = <<>>

\* no analysis task
InitNoTasks ==
    /\ tasks = <<>>
    /\ worktrees = <<>>

\* no pipeline run
InitNoPipeline ==
    /\ InitNoTasks
    /\ pc = "idle"
    /\ args = [analyze_only |-> FALSE, push |-> FALSE]
    /\ fixer = [state |-> "idle", returncode |-> None, wrote |-> FALSE]
    /\ plan = None
    /\ regression_report = None
    /\ outcome = None
    /\ events = <<>>

InitChecker ==
    /\ initial_scan = None
    /\ final_scan = None
    /\ called = {}
    /\ first = "none"

InitPlan ==
    /\ InitClassifier
    /\ InitChecker
    /\ InitRun
    /\ InitNoPipeline
    /\ issues \in SeqsUpTo(Issue, MaxIssues)
    /\ safety_mode = "safe"
    /\ op = "init" /\ arg = None /\ ret = None
    /\ classified = [c \in RuleCodes |-> None]
    /\ repeat = FALSE

Classify(c) ==
    /\ op' = "classify" /\ arg' = c
    /\ ret' = classify(c)
    /\ classified' = IF classified[c] = None
                     THEN [classified EXCEPT ![c] = Some(classify(c))]
                     ELSE classified
    /\ repeat' = (classified[c] # None)
    /\ UNCHANGED <<classifierVars, runVars, pipeVars, checkerVars, issues, safety_mode>>

GroupByCategory ==
    /\ op' = "group_by_category" /\ arg' = issues
    /\ ret' = group_by_category(issues)
    /\ issues' = group_by_category_args(issues)
    /\ repeat' = FALSE
    /\ UNCHANGED <<classifierVars, runVars, pipeVars, checkerVars, safety_mode, classified>>

GetSummary ==
    /\ op' = "get_summary" /\ arg' = issues
    /\ ret' = get_summary(issues)
    /\ issues' = group_by_category_args(issues)
    /\ repeat' = FALSE
    /\ UNCHANGED <<classifierVars, runVars, pipeVars, checkerVars, safety_mode, classified>>

PlanFixes(mode) ==
    /\ op' = "plan_fixes" /\ arg' = issues
    /\ safety_mode' = mode
    /\ ret' = plan_fixes(issues, mode)
    /\ issues' = group_by_category_args(issues)
    /\ repeat' = FALSE
    /\ UNCHANGED <<classifierVars, runVars, pipeVars, checkerVars, classified>>

NextPlan ==
    \/ \E c \in RuleCodes : Classify(c)
    \/ GroupByCategory
    \/ GetSummary
    \/ \E mode \in SafetyModes : PlanFixes(mode)

SpecPlan == InitPlan /\ [][NextPlan]_vars

----------------------------------------------------------------------------
(* SafetyChecker *)

\* SafetyChecker.__init__
SafetyChecker_init == [initial_scan |-> None, final_scan |-> None]

\* a plausible slip: output that does not parse is reported as one
\* syntax-error issue
scan_repo_garbage_is_issue(stdout) ==
    IF stdout.kind = "blank" THEN <<>>
    ELSE IF stdout.kind = "json" THEN stdout.data
    ELSE <<[code |-> "E999", filename |-> "file.py",
            location |-> [row |-> 1], message |-> "msg"]>>

\* SafetyChecker.scan_repo applied to the scan tool's stdout: blank output and
\* output json.loads rejects both give [], parsed output is returned as it is
scan_repo(stdout) ==
    IF stdout.kind = "blank" THEN <<>>
    ELSE IF stdout.kind = "json" THEN stdout.data
    ELSE <<>>

\* the loop of SafetyChecker._group_by_code from position k on
RECURSIVE group_by_code_loop(_, _, _)
group_by_code_loop(iss, k, grouped) ==
    IF k > Len(iss) THEN grouped
    ELSE LET code == iss[k].code
         IN  group_by_code_loop(iss, k + 1,
                 IF code \in DOMAIN grouped
                 THEN [grouped EXCEPT ![code] = @ + 1]
                 ELSE grouped @@ (code :> 1))

\* SafetyChecker._group_by_code
group_by_code(iss) == group_by_code_loop(iss, 1, <<>>)

\* a plausible slip: record_before stores its scan in final_scan
record_before_sets_final(stdout) ==
    LET scan == scan_repo(stdout)
    IN  [initial_scan |-> initial_scan,
         final_scan |-> Some(scan),
         ret |-> [total |-> Len(scan), by_code |-> group_by_code(scan)]]

\* SafetyChecker.record_before: the fields after the call and the value returned
record_before(stdout) ==
    LET scan == scan_repo(stdout)
    IN  [initial_scan |-> Some(scan),
         final_scan |-> final_scan,
         ret |-> [total |-> Len(scan), by_code |-> group_by_code(scan)]]

\* a plausible slip: record_after stores its scan in both fields
record_after_sets_both(stdout) ==
    LET scan == scan_repo(stdout)
    IN  [initial_scan |-> Some(scan),
         final_scan |-> Some(scan),
         ret |-> [total |-> Len(scan), by_code |-> group_by_code(scan)]]

\* SafetyChecker.record_after: the fields after the call and the value returned
record_after(stdout) ==
    LET scan == scan_repo(stdout)
    IN  [initial_scan |-> initial_scan,
         final_scan |-> Some(scan),
         ret |-> [total |-> Len(scan), by_code |-> group_by_code(scan)]]

\* list(a_set): the elements once each, in an order Python does not fix
list(S) == {s \in [1..Cardinality(S) -> S] : Range(s) = S}

\* a plausible slip: the counts are taken over distinct rule codes
regression_reports_code_counts(status, new_issues, fixed_issues) ==
    LET before == Cardinality({initial_scan[1][i].code : i \in DOMAIN initial_scan[1]})
        after == Cardinality({final_scan[1][i].code : i \in DOMAIN final_scan[1]})
    IN  {[initial_scan |-> initial_scan,
          final_scan |-> final_scan,
          ret |-> [status |-> status,
                   new_issues |-> n,
                   fixed_issues |-> f,
                   issues_before |-> before,
                   issues_after |-> after,
                   net_fixed |-> before - after]]
            : n \in list(new_issues), f \in list(fixed_issues)}

\* the report dict of check_regressions for given code sets
regression_reports(status, new_issues, fixed_issues) ==
    {[initial_scan |-> initial_scan,
      final_scan |-> final_scan,
      ret |-> [status |-> status,
               new_issues |-> n,
               fixed_issues |-> f,
               issues_before |-> Len(initial_scan[1]),
               issues_after |-> Len(final_scan[1]),
               net_fixed |-> Len(initial_scan[1]) - Len(final_scan[1])]]
        : n \in list(new_issues), f \in list(fixed_issues)}

incomplete_report ==
    {[initial_scan |-> initial_scan,
      final_scan |-> final_scan,
      ret |-> [status |-> "incomplete",
               message |-> "Before/after scans not recorded"]]}

\* what iterating a missing scan does
raises_TypeError ==
    {[initial_scan |-> initial_scan, final_scan |-> final_scan,
      ret |-> Raised("TypeError")]}

\* a plausible slip: the status is taken from fixed_issues
check_regressions_status_of_fixed ==
    IF initial_scan = None \/ final_scan = None THEN incomplete_report
    ELSE LET initial_codes == {initial_scan[1][i].code : i \in DOMAIN initial_scan[1]}
             final_codes == {final_scan[1][i].code : i \in DOMAIN final_scan[1]}
             new_issues == final_codes \ initial_codes
             fixed_issues == initial_codes \ final_codes
         IN  regression_reports(IF fixed_issues = {} THEN "ok" ELSE "warning",
                                new_issues, fixed_issues)

\* a plausible slip: the two set differences are the wrong way round
check_regressions_swapped ==
    IF initial_scan = None \/ final_scan = None THEN incomplete_report
    ELSE LET initial_codes == {initial_scan[1][i].code : i \in DOMAIN initial_scan[1]}
             final_codes == {final_scan[1][i].code : i \in DOMAIN final_scan[1]}
             new_issues == initial_codes \ final_codes
             fixed_issues == final_codes \ initial_codes
         IN  regression_reports(IF new_issues = {} THEN "ok" ELSE "warning",
                                new_issues, fixed_issues)

\* a plausible slip: 'and' for 'or' in the guard
check_regressions_guard_and ==
    IF initial_scan = None /\ final_scan = None THEN incomplete_report
    ELSE IF initial_scan = None \/ final_scan = None THEN raises_TypeError
    ELSE LET initial_codes == {initial_scan[1][i].code : i \in DOMAIN initial_scan[1]}
             final_codes == {final_scan[1][i].code : i \in DOMAIN final_scan[1]}
             new_issues == final_codes \ initial_codes
             fixed_issues == initial_codes \ final_codes
         IN  regression_reports(IF new_issues = {} THEN "ok" ELSE "warning",
                                new_issues, fixed_issues)

\* a plausible slip: the after-snapshot is dropped once it has been reported
check_regressions_consumes_final ==
    IF initial_scan = None \/ final_scan = None THEN incomplete_report
    ELSE LET initial_codes == {initial_scan[1][i].code : i \in DOMAIN initial_scan[1]}
             final_codes == {final_scan[1][i].code : i \in DOMAIN final_scan[1]}
             new_issues == final_codes \ initial_codes
             fixed_issues == initial_codes \ final_codes
         IN  {[out EXCEPT !.final_scan = None] :
                 out \in regression_reports(IF new_issues = {} THEN "ok" ELSE "warning",
                                            new_issues, fixed_issues)}

\* a plausible slip: the new issues are the codes of the instances (file,
\* line, code) of the after-snapshot that the before-snapshot does not have
check_regressions_by_instance ==
    IF initial_scan = None \/ final_scan = None THEN incomplete_report
    ELSE LET initial_codes == {initial_scan[1][i].code : i \in DOMAIN initial_scan[1]}
             final_codes == {final_scan[1][i].code : i \in DOMAIN final_scan[1]}
             new_issues == {final_scan[1][i].code :
                               i \in {k \in DOMAIN final_scan[1] :
                                          final_scan[1][k] \notin Range(initial_scan[1])}}
             fixed_issues == initial_codes \ final_codes
         IN  regression_reports(IF new_issues = {} THEN "ok" ELSE "warning",
                                new_issues, fixed_issues)

\* a plausible slip: an empty after-snapshot following a non-empty
\* before-snapshot is taken for a failed scan and reported as a warning
check_regressions_suspects_empty_after ==
    IF initial_scan = None \/ final_scan = None THEN incomplete_report
    ELSE LET initial_codes == {initial_scan[1][i].code : i \in DOMAIN initial_scan[1]}
             final_codes == {final_scan[1][i].code : i \in DOMAIN final_scan[1]}
             new_issues == final_codes \ initial_codes
             fixed_issues == initial_codes \ final_codes
         IN  regression_reports(IF new_issues = {} /\ ~(final_codes = {} /\ initial_codes # {})
                                THEN "ok" ELSE "warning",
                                new_issues, fixed_issues)

\* SafetyChecker.check_regressions: the possible outcomes of a call, each the
\* fields after the call and the value returned
check_regressions ==
    IF initial_scan = None \/ final_scan = None THEN incomplete_report
    ELSE LET initial_codes == {initial_scan[1][i].code : i \in DOMAIN initial_scan[1]}
             final_codes == {final_scan[1][i].code : i \in DOMAIN final_scan[1]}
             new_issues == final_codes \ initial_codes
             fixed_issues == initial_codes \ final_codes
         IN  regression_reports(IF new_issues = {} THEN "ok" ELSE "warning",
                                new_issues, fixed_issues)

\* str.upper() of a status
upper(status) ==
    CASE status = "ok" -> "OK"
      [] status = "warning" -> "WARNING"
      [] status = "incomplete" -> "INCOMPLETE"

\* ', '.join(codes)
RECURSIVE join(_)
join(codes) ==
    IF codes = <<>> THEN ""
    ELSE IF Len(codes) = 1 THEN codes[1]
    ELSE codes[1] \o ", " \o join(Tail(codes))

\* the text format_report builds from a report dict, line by line; a report
\* without the counts (status incomplete) has no 'issues_before' key
report_text(regression_check) ==
    IF "issues_before" \notin DOMAIN regression_check THEN Raised("KeyError")
    ELSE [status |-> upper(regression_check.status),
          issues_before |-> regression_check.issues_before,
          issues_after |-> regression_check.issues_after,
          net_fixed |-> regression_check.net_fixed,
          new_issues |-> IF regression_check.new_issues # <<>>
                         THEN "NEW ISSUES INTRODUCED: " \o join(regression_check.new_issues)
                         ELSE "No new issues introduced",
          fixed_issues |-> IF regression_check.fixed_issues # <<>>
                           THEN "Fixed rules: " \o join(regression_check.fixed_issues)
                           ELSE ""]

\* SafetyChecker.format_report: the possible outcomes of a call
format_report ==
    {[initial_scan |-> out.initial_scan,
      final_scan |-> out.final_scan,
      ret |-> report_text(out.ret)] : out \in check_regressions}

----------------------------------------------------------------------------
(* Inputs of the checker specification *)

\* a SAFE-table code and a RISKY-table code, as in the spec's scenarios A and B
ScanCodes == {"F401", "C901"}

\* an entry of the scan tool's JSON output
ScanItem == [code : ScanCodes, filename : {"file.py"},
             location : [row : Lines], message : {"msg"}]

\* the scan tool lists its findings in the order of their position in the file
InScanOrder(d) ==
    \A i, j \in DOMAIN d : i < j => d[i].location.row <= d[j].location.row

\* what the scan tool can write to stdout
Stdout == {[kind |-> "blank"], [kind |-> "garbage"]}
          \cup {[kind |-> "json", data |-> d] :
                   d \in {e \in SeqsUpTo(ScanItem, MaxIssues) : InScanOrder(e)}}

InitCheckerSpec ==
    /\ InitClassifier
    /\ InitRun
    /\ InitNoPipeline
    /\ initial_scan = SafetyChecker_init.initial_scan
    /\ final_scan = SafetyChecker_init.final_scan
    /\ called = {} /\ first = "none"
    /\ issues = <<>> /\ safety_mode = "safe"
    /\ op = "init" /\ arg = None /\ ret = None
    /\ classified = [c \in RuleCodes |-> None]
    /\ repeat = FALSE

RecordBefore(stdout) ==
    LET out == record_before(stdout)
    IN  /\ op' = "record_before" /\ arg' = stdout.kind
        /\ initial_scan' = out.initial_scan
        /\ final_scan' = out.final_scan
        /\ ret' = out.ret
        /\ called' = called \cup {"record_before"}
        /\ first' = IF first = "none" THEN "record_before" ELSE first
        /\ repeat' = FALSE
        /\ UNCHANGED <<classifierVars, runVars, pipeVars, issues, safety_mode, classified>>

RecordAfter(stdout) ==
    LET out == record_after(stdout)
    IN  /\ op' = "record_after" /\ arg' = stdout.kind
        /\ initial_scan' = out.initial_scan
        /\ final_scan' = out.final_scan
        /\ ret' = out.ret
        /\ called' = called \cup {"record_after"}
        /\ first' = IF first = "none" THEN "record_after" ELSE first
        /\ repeat' = FALSE
        /\ UNCHANGED <<classifierVars, runVars, pipeVars, issues, safety_mode, classified>>

CheckRegressions ==
    \E out \in check_regressions :
        /\ op' = "check_regressions" /\ arg' = None
        /\ initial_scan' = out.initial_scan
        /\ final_scan' = out.final_scan
        /\ ret' = out.ret
        /\ repeat' = (op = "check_regressions")
        /\ UNCHANGED <<classifierVars, runVars, pipeVars, issues, safety_mode, classified, called, first>>

FormatReport ==
    \E out \in format_report :
        /\ op' = "format_report" /\ arg' = None
        /\ initial_scan' = out.initial_scan
        /\ final_scan' = out.final_scan
        /\ ret' = out.ret
        /\ repeat' = FALSE
        /\ UNCHANGED <<classifierVars, runVars, pipeVars, issues, safety_mode, classified, called, first>>

NextChecker ==
    \/ \E stdout \in Stdout : RecordBefore(stdout)
    \/ \E stdout \in Stdout : RecordAfter(stdout)
    \/ CheckRegressions
    \/ FormatReport

SpecChecker == InitCheckerSpec /\ [][NextChecker]_vars

----------------------------------------------------------------------------
(* The external fixer and execute_plan, under SpecExecute *)

\* the findings a scan can list for a working tree
Trees == {t \in SeqsUpTo(ScanItem, MaxIssues) : InScanOrder(t)}

\* what subprocess.run can do with the fixer: the process ends with an exit
\* code, or the call faults (the process cannot be started, its output
\* cannot be decoded)
ProcessResults ==
    {[kind |-> "exit", returncode |-> rc] : rc \in {0, 1, 2}}
    \cup {[kind |-> "fault", exc |-> "OSError"]}

\* the rule codes a fixer command is restricted to by --select; all when the
\* command has no --select
Selected(cmd) ==
    IF \E i \in DOMAIN cmd : cmd[i] = "--select"
    THEN LET i == CHOOSE k \in DOMAIN cmd : cmd[k] = "--select" IN cmd[i + 1]
    ELSE ScanCodes

Occurrences(t, item) == Cardinality({i \in DOMAIN t : t[i] = item})

\* the trees a fixer run with the given command can leave behind: findings of
\* rules outside the selection stay, the others may go, and the rewriting
\* may bring new findings
FixerEffects(cmd, t) ==
    {u \in Trees : \A item \in Range(t) :
        item.code \notin Selected(cmd) => Occurrences(u, item) >= Occurrences(t, item)}

InitExecute ==
    /\ InitClassifier
    /\ InitChecker
    /\ InitNoPipeline
    /\ tree \in Trees
    /\ fixer_requests = <<>>
    /\ issues = <<>> /\ safety_mode = "safe"
    /\ op = "init" /\ arg = None /\ ret = None
    /\ classified = [c \in RuleCodes |-> None]
    /\ repeat = FALSE

ExecutePlan(mode, result) ==
    LET out == execute_plan(mode, result)
    IN  /\ op' = "execute_plan"
        /\ arg' = [result |-> result, tree |-> tree]
        /\ safety_mode' = mode
        /\ fixer_requests' = out.requests
        /\ tree' \in UNION {FixerEffects(out.requests[k], tree) : k \in DOMAIN out.requests}
        /\ ret' = out.ret
        /\ UNCHANGED <<classifierVars, checkerVars, pipeVars, issues, classified, repeat>>

NextExecute ==
    \E mode \in SafetyModes, result \in ProcessResults : ExecutePlan(mode, result)

SpecExecute == InitExecute /\ [][NextExecute]_vars

\* the codes of the SAFE table
SafeCodes == {c \in ScanCodes : classify(c).category = RuleCategory.SAFE}

\* C13: execute_plan sends the fixer a request scoped to its safety mode: for
\* mode safe the request selects only rule codes that classify SAFE, differs
\* from the request for mode all, and no finding of a RISKY or SUGGEST rule
\* is fixed.
C13_RequestScopedToSafetyMode ==
    (op = "execute_plan" /\ safety_mode = "safe") =>
        /\ \A k \in DOMAIN fixer_requests :
              /\ "--select" \in Range(fixer_requests[k])
              /\ Selected(fixer_requests[k]) \subseteq SafeCodes
              /\ fixer_requests[k] # execute_plan_cmd("all")
        /\ \A item \in Range(arg.tree) :
              item.code \notin SafeCodes =>
                  Occurrences(tree, item) >= Occurrences(arg.tree, item)

\* C14: for every outcome of the fixer (exit code 0, another exit code, a
\* fault of the process) execute_plan invokes the fixer exactly once, does
\* not raise, and returns true exactly when the exit code was 0.
C14_ExecutePlanReturnsSuccessFlag ==
    op = "execute_plan" =>
        /\ Len(fixer_requests) = 1
        /\ "raised" \notin DOMAIN ret
        /\ ret.returned = (arg.result.kind = "exit" /\ arg.result.returncode = 0)

----------------------------------------------------------------------------
(* The v3 pipeline (agi_engineer_v3.py main), under SpecPipeline *)

\* os.path.abspath(os.path.join(repo_root, filename)) for the run's repo_root
abspath(filename) == "/repo/" \o filename

\* the issue run_ruff builds from an entry of the scan output
run_ruff_issue(item) ==
    [filename |-> abspath(item.filename),
     line |-> item.location.row,
     code |-> item.code,
     message |-> item.message]

\* a plausible slip: run_ruff guards json.loads as scan_repo does
run_ruff_guarded(stdout) ==
    IF stdout.kind = "blank" THEN Returned(<<>>)
    ELSE IF stdout.kind = "json"
    THEN Returned([k \in DOMAIN stdout.data |-> run_ruff_issue(stdout.data[k])])
    ELSE Returned(<<>>)

\* analyze.run_ruff applied to the scan tool's stdout: blank output gives [],
\* json.loads is not guarded
run_ruff(stdout) ==
    IF stdout.kind = "blank" THEN Returned(<<>>)
    ELSE IF stdout.kind = "json"
    THEN Returned([k \in DOMAIN stdout.data |-> run_ruff_issue(stdout.data[k])])
    ELSE Raised("JSONDecodeError")

\* what a scan of the tree t can write to stdout: its findings, or, when the
\* scan tool fails, nothing or text that is not JSON
ScanOutputs(t) ==
    {[kind |-> "json", data |-> t], [kind |-> "blank"], [kind |-> "garbage"]}

\* a plausible slip: Popen without wait() for subprocess.run
subprocess_run_returns_at_once(proc) == proc.state \in {"running", "exited"}

\* subprocess.run returns when the process it started has exited
subprocess_run_returns(proc) == proc.state = "exited"

\* the CompletedProcess of the fixer; a process that has not exited has no
\* exit code, which is not 0
completed(proc) ==
    [kind |-> "exit",
     returncode |-> IF proc.returncode = None THEN -1 ELSE proc.returncode[1]]

Event(e, out) == [e |-> e, out |-> out]

\* return <status> from main
Return(status, why) == Some([status |-> status, why |-> why])

InitPipeline ==
    /\ InitClassifier
    /\ InitChecker
    /\ tree \in Trees
    /\ fixer_requests = <<>>
    /\ issues = <<>> /\ safety_mode = "safe"
    /\ op = "init" /\ arg = None /\ ret = None
    /\ classified = [c \in RuleCodes |-> None]
    /\ repeat = FALSE
    /\ InitNoTasks
    /\ pc = "scan"
    /\ args \in [analyze_only : BOOLEAN, push : BOOLEAN]
    /\ fixer = [state |-> "idle", returncode |-> None, wrote |-> FALSE]
    /\ plan = None
    /\ regression_report = None
    /\ outcome = None
    /\ events = <<>>

pipeFrame ==
    <<classifierVars, safety_mode, op, arg, ret, classified, repeat, called, first, args, taskVars>>

\* main: issues = run_ruff(repo_path); if not issues: return 0
Scan(stdout) ==
    LET out == run_ruff(stdout)
    IN  /\ pc = "scan"
        /\ events' = Append(events, Event("run_ruff", stdout.kind))
        /\ IF "raised" \in DOMAIN out
           THEN /\ pc' = "done" /\ outcome' = Return(1, "error")
                /\ UNCHANGED issues
           ELSE /\ issues' = out.returned
                /\ IF out.returned = <<>>
                   THEN pc' = "done" /\ outcome' = Return(0, "clean")
                   ELSE pc' = "plan" /\ UNCHANGED outcome
        /\ UNCHANGED <<pipeFrame, initial_scan, final_scan, tree, fixer_requests,
                       fixer, plan, regression_report>>

\* main: plan = orchestrator.plan_fixes(issues, safety_mode='safe'); analyze-only exit
Plan ==
    /\ pc = "plan"
    /\ plan' = Some(plan_fixes(issues, "safe"))
    /\ issues' = group_by_category_args(issues)
    /\ IF args.analyze_only
       THEN pc' = "done" /\ outcome' = Return(0, "analysis")
       ELSE pc' = "record_before" /\ UNCHANGED outcome
    /\ UNCHANGED <<pipeFrame, initial_scan, final_scan, tree, fixer_requests,
                   fixer, regression_report, events>>

\* main: safety_checker.record_before(repo_path)
PipeRecordBefore(stdout) ==
    LET out == record_before(stdout)
    IN  /\ pc = "record_before"
        /\ initial_scan' = out.initial_scan
        /\ final_scan' = out.final_scan
        /\ events' = Append(events, Event("record_before", stdout.kind))
        /\ pc' = IF args.push THEN "create_branch" ELSE "execute_plan"
        /\ UNCHANGED <<pipeFrame, issues, tree, fixer_requests, fixer, plan,
                       regression_report, outcome>>

\* main: create_branch when --push or --pr is given
CreateBranch(success) ==
    /\ pc = "create_branch"
    /\ IF success
       THEN pc' = "execute_plan" /\ UNCHANGED outcome
       ELSE pc' = "done" /\ outcome' = Return(1, "branch")
    /\ UNCHANGED <<pipeFrame, issues, initial_scan, final_scan, tree, fixer_requests,
                   fixer, plan, regression_report, events>>

\* main: orchestrator.execute_plan(repo_path, safety_mode='safe'), up to the
\* start of the fixer process by subprocess.run
StartFixer(started) ==
    LET fault == [kind |-> "fault", exc |-> "OSError"]
        out == execute_plan("safe", fault)
    IN  /\ pc = "execute_plan"
        /\ fixer_requests' = fixer_requests \o out.requests
        /\ IF started
           THEN /\ fixer' = [fixer EXCEPT !.state = "running"]
                /\ events' = Append(events, Event("fixer_started", ""))
                /\ pc' = "fixing" /\ UNCHANGED outcome
           ELSE /\ events' = Append(events, Event("fixer_fault", out.ret.raised))
                /\ pc' = "done" /\ outcome' = Return(1, "error")
                /\ UNCHANGED fixer
        /\ UNCHANGED <<pipeFrame, issues, initial_scan, final_scan, tree, plan,
                       regression_report>>

\* the fixer process rewrites files
FixerWrite(u) ==
    /\ fixer.state = "running" /\ ~fixer.wrote
    /\ u \in FixerEffects(fixer_requests[Len(fixer_requests)], tree)
    /\ tree' = u
    /\ fixer' = [fixer EXCEPT !.wrote = TRUE]
    /\ UNCHANGED <<pipeFrame, issues, initial_scan, final_scan, fixer_requests, pc, plan,
                   regression_report, outcome, events>>

\* the fixer process exits
FixerExit(rc) ==
    /\ fixer.state = "running"
    /\ fixer' = [fixer EXCEPT !.state = "exited", !.returncode = Some(rc)]
    /\ events' = Append(events, Event("fixer_exited", ""))
    /\ UNCHANGED <<pipeFrame, issues, initial_scan, final_scan, tree, fixer_requests, pc,
                   plan, regression_report, outcome>>

\* subprocess.run comes back: execute_plan returns the flag, which main does
\* not look at, or the fault reaches main's except clause
ExecuteReturn(faulted) ==
    LET res == IF faulted THEN [kind |-> "fault", exc |-> "UnicodeDecodeError"]
               ELSE completed(fixer)
        out == execute_plan("safe", res)
    IN  /\ pc = "fixing"
        /\ subprocess_run_returns(fixer)
        /\ IF "raised" \in DOMAIN out.ret
           THEN /\ events' = Append(events, Event("fixer_fault", out.ret.raised))
                /\ pc' = "done" /\ outcome' = Return(1, "error")
           ELSE /\ events' = Append(events, Event("execute_plan",
                                       IF out.ret.returned THEN "true" ELSE "false"))
                /\ pc' = "record_after" /\ UNCHANGED outcome
        /\ UNCHANGED <<pipeFrame, issues, initial_scan, final_scan, tree, fixer_requests,
                       fixer, plan, regression_report>>

\* main: safety_checker.record_after(repo_path)
PipeRecordAfter(stdout) ==
    LET out == record_after(stdout)
    IN  /\ pc = "record_after"
        /\ initial_scan' = out.initial_scan
        /\ final_scan' = out.final_scan
        /\ events' = Append(events, Event("record_after", stdout.kind))
        /\ pc' = "check_regressions"
        /\ UNCHANGED <<pipeFrame, issues, tree, fixer_requests, fixer, plan,
                       regression_report, outcome>>

\* main: regression_report = safety_checker.check_regressions();
\* fixed_count = regression_report['net_fixed']; if fixed_count == 0: return 0
PipeCheckRegressions ==
    \E out \in check_regressions :
        /\ pc = "check_regressions"
        /\ initial_scan' = out.initial_scan
        /\ final_scan' = out.final_scan
        /\ regression_report' = Some(out.ret)
        /\ events' = Append(events, Event("check_regressions", out.ret.status))
        /\ IF "net_fixed" \notin DOMAIN out.ret
           THEN pc' = "done" /\ outcome' = Return(1, "error")
           ELSE IF out.ret.net_fixed = 0
           THEN pc' = "done" /\ outcome' = Return(0, "nothing fixed")
           ELSE IF args.push
           THEN pc' = "commit" /\ UNCHANGED outcome
           ELSE pc' = "done" /\ outcome' = Return(0, "done")
        /\ UNCHANGED <<pipeFrame, issues, tree, fixer_requests, fixer, plan>>

\* main: commit_changes
Commit(success) ==
    /\ pc = "commit"
    /\ events' = Append(events, Event("commit", IF success THEN "ok" ELSE "failed"))
    /\ IF success
       THEN pc' = "push" /\ UNCHANGED outcome
       ELSE pc' = "done" /\ outcome' = Return(1, "commit")
    /\ UNCHANGED <<pipeFrame, issues, initial_scan, final_scan, tree, fixer_requests,
                   fixer, plan, regression_report>>

\* main: push_branch (and the pull request, whose failure is not an error)
Push(success) ==
    /\ pc = "push"
    /\ events' = Append(events, Event("push", IF success THEN "ok" ELSE "failed"))
    /\ pc' = "done"
    /\ outcome' = IF success THEN Return(0, "done") ELSE Return(1, "push")
    /\ UNCHANGED <<pipeFrame, issues, initial_scan, final_scan, tree, fixer_requests,
                   fixer, plan, regression_report>>

NextPipeline ==
    \/ \E stdout \in ScanOutputs(tree) : Scan(stdout)
    \/ Plan
    \/ \E stdout \in ScanOutputs(tree) : PipeRecordBefore(stdout)
    \/ \E success \in BOOLEAN : CreateBranch(success)
    \/ \E started \in BOOLEAN : StartFixer(started)
    \/ \E u \in Trees : FixerWrite(u)
    \/ \E rc \in {0, 1, 2} : FixerExit(rc)
    \/ \E faulted \in BOOLEAN : ExecuteReturn(faulted)
    \/ \E stdout \in ScanOutputs(tree) : PipeRecordAfter(stdout)
    \/ PipeCheckRegressions
    \/ \E success \in BOOLEAN : Commit(success)
    \/ \E success \in BOOLEAN : Push(success)

SpecPipeline == InitPipeline /\ [][NextPipeline]_vars

----------------------------------------------------------------------------
(* The analysis tasks of the backend (app/tasks/analysis_tasks.py), under SpecTasks *)

\* the Celery workers run tasks side by side
Tasks == {1, 2}

\* github_full_name of the repository the runs are for
Repositories == {"octo/app"}

\* full_name.replace("/", "_")
repo_name(full_name) == IF full_name = "octo/app" THEN "octo_app" ELSE full_name

\* clone_repository: repos_dir / repo_name
repo_path(full_name) == "/tmp/agi_engineer_repos/" \o repo_name(full_name)

RepoPaths == {repo_path(full_name) : full_name \in Repositories}

\* the most findings a checkout of the tasks has
MaxTaskIssues == 1

\* the findings a scan of a checkout can give
TaskTrees == {t \in Trees : Len(t) <= MaxTaskIssues}

\* the key run_agi_engineer_analysis compares issues by
issue_key(i) == <<i.filename, i.line, i.code>>

\* run_agi_engineer_analysis: one result per issue of the first scan, fixed
\* when its key is not among the keys of the re-scan
analysis_results(all_issues, remaining_issues) ==
    LET remaining_keys == {issue_key(remaining_issues[k]) : k \in DOMAIN remaining_issues}
    IN  [k \in DOMAIN all_issues |->
            [issue_code |-> all_issues[k].code,
             line_number |-> all_issues[k].line,
             is_fixed |-> IF issue_key(all_issues[k]) \notin remaining_keys THEN 1 ELSE 0]]

InitTasks ==
    /\ InitClassifier
    /\ InitChecker
    /\ InitRun
    /\ issues = <<>> /\ safety_mode = "safe"
    /\ op = "init" /\ arg = None /\ ret = None
    /\ classified = [c \in RuleCodes |-> None]
    /\ repeat = FALSE
    /\ pc = "idle"
    /\ args = [analyze_only |-> FALSE, push |-> FALSE]
    /\ fixer = [state |-> "idle", returncode |-> None, wrote |-> FALSE]
    /\ plan = None
    /\ regression_report = None
    /\ outcome = None
    /\ events = <<>>
    /\ \E full_name \in [Tasks -> Repositories] :
          tasks = [i \in Tasks |->
                    [pc |-> "start", status |-> "pending",
                     repo_path |-> repo_path(full_name[i]), exists |-> FALSE,
                     all_issues |-> <<>>, wrote |-> FALSE, results |-> None]]
    /\ worktrees = [p \in RepoPaths |-> None]

taskFrame ==
    <<classifierVars, checkerVars, runVars, issues, safety_mode, op, arg, ret, classified,
      repeat, pc, args, fixer, plan, regression_report, outcome, events>>

\* the except clause of run_code_analysis: the run is marked failed
failed(task) == [task EXCEPT !.pc = "done", !.status = "failed", !.all_issues = <<>>]

\* run_code_analysis up to clone_repository's repo_path.exists()
StartTask(i) ==
    /\ tasks[i].pc = "start"
    /\ tasks' = [tasks EXCEPT ![i].pc = "clone", ![i].status = "in_progress",
                              ![i].exists = (worktrees[tasks[i].repo_path] # None)]
    /\ UNCHANGED <<taskFrame, worktrees>>

\* clone_repository: git fetch, checkout and pull in the checkout that was
\* there, git clone otherwise; every git command has check=True
CloneRepository(i, upstream, success) ==
    LET path == tasks[i].repo_path
    IN  /\ tasks[i].pc = "clone"
        /\ IF tasks[i].exists
           THEN /\ tasks' = [tasks EXCEPT ![i] = IF success THEN [@ EXCEPT !.pc = "scan"]
                                                ELSE failed(@)]
                /\ UNCHANGED worktrees
           ELSE IF success /\ worktrees[path] = None
           THEN /\ worktrees' = [worktrees EXCEPT ![path] = Some(upstream)]
                /\ tasks' = [tasks EXCEPT ![i].pc = "scan"]
           ELSE /\ tasks' = [tasks EXCEPT ![i] = failed(@)]
                /\ UNCHANGED worktrees
        /\ UNCHANGED taskFrame

\* run_agi_engineer_analysis: all_issues = run_ruff(repo_root)
TaskScan(i, stdout) ==
    LET out == run_ruff(stdout)
    IN  /\ tasks[i].pc = "scan"
        /\ stdout \in ScanOutputs(worktrees[tasks[i].repo_path][1])
        /\ tasks' = [tasks EXCEPT ![i] =
                IF "raised" \in DOMAIN out THEN failed(@)
                ELSE [@ EXCEPT !.all_issues = out.returned,
                               !.pc = IF out.returned # <<>> THEN "execute_plan" ELSE "rescan"]]
        /\ UNCHANGED <<taskFrame, worktrees>>

\* run_agi_engineer_analysis: execute_plan(repo_root, safety_mode='safe'), up
\* to the start of the fixer process
TaskStartFixer(i, started) ==
    /\ tasks[i].pc = "execute_plan"
    /\ tasks' = [tasks EXCEPT ![i] = IF started THEN [@ EXCEPT !.pc = "fixing"] ELSE failed(@)]
    /\ UNCHANGED <<taskFrame, worktrees>>

\* the fixer process of the task rewrites files of its checkout
TaskFixerWrite(i, u) ==
    LET path == tasks[i].repo_path
    IN  /\ tasks[i].pc = "fixing" /\ ~tasks[i].wrote
        /\ u \in FixerEffects(execute_plan_cmd("safe"), worktrees[path][1]) \cap TaskTrees
        /\ worktrees' = [worktrees EXCEPT ![path] = Some(u)]
        /\ tasks' = [tasks EXCEPT ![i].wrote = TRUE]
        /\ UNCHANGED taskFrame

\* the fixer process ends and execute_plan returns (the flag is dropped), or
\* subprocess.run faults
TaskExecuteReturn(i, result) ==
    LET out == execute_plan("safe", result)
    IN  /\ tasks[i].pc = "fixing"
        /\ tasks' = [tasks EXCEPT ![i] =
                IF "raised" \in DOMAIN out.ret THEN failed(@) ELSE [@ EXCEPT !.pc = "rescan"]]
        /\ UNCHANGED <<taskFrame, worktrees>>

\* run_agi_engineer_analysis: remaining_issues = run_ruff(repo_root) and the
\* results; run_code_analysis stores them and completes the run
TaskRescan(i, stdout) ==
    LET out == run_ruff(stdout)
    IN  /\ tasks[i].pc = "rescan"
        /\ stdout \in ScanOutputs(worktrees[tasks[i].repo_path][1])
        /\ tasks' = [tasks EXCEPT ![i] =
                IF "raised" \in DOMAIN out THEN failed(@)
                ELSE [@ EXCEPT !.pc = "done", !.status = "completed", !.all_issues = <<>>,
                               !.results = Some(analysis_results(tasks[i].all_issues, out.returned))]]
        /\ UNCHANGED <<taskFrame, worktrees>>

ScanStdouts == {[kind |-> "json", data |-> t] : t \in TaskTrees}
                   \cup {[kind |-> "blank"], [kind |-> "garbage"]}

NextTasks ==
    \E i \in Tasks :
        \/ StartTask(i)
        \/ \E upstream \in TaskTrees, success \in BOOLEAN : CloneRepository(i, upstream, success)
        \/ \E stdout \in ScanStdouts : TaskScan(i, stdout)
        \/ \E started \in BOOLEAN : TaskStartFixer(i, started)
        \/ \E u \in TaskTrees : TaskFixerWrite(i, u)
        \/ \E result \in ProcessResults : TaskExecuteReturn(i, result)
        \/ \E stdout \in ScanStdouts : TaskRescan(i, stdout)

SpecTasks == InitTasks /\ [][NextTasks]_vars

----------------------------------------------------------------------------
(* Properties of SafetyChecker, under SpecChecker *)

BothRecorded == called = {"record_before", "record_after"}

\* the rule code c occurs in snapshot S
Occurs(c, S) == \E i \in DOMAIN S : S[i].code = c

\* C1: once both snapshots are recorded, check_regressions returns status
\* 'warning' exactly when some rule code occurs in the after-snapshot and not
\* in the before-snapshot, and 'ok' otherwise; it never returns 'ok' with a
\* non-empty new_issues.
C1_WarningIffNewCode ==
    (op = "check_regressions" /\ BothRecorded) =>
        /\ "status" \in DOMAIN ret
        /\ ret.status \in {"ok", "warning"}
        /\ ret.status = "warning" <=>
               \E c \in ScanCodes : Occurs(c, final_scan[1]) /\ ~Occurs(c, initial_scan[1])
        /\ ret.status = "ok" => ret.new_issues = <<>>

C1_Witness ==
    /\ op = "check_regressions" /\ BothRecorded
    /\ ret.status = "warning"
    /\ initial_scan[1] # <<>>

\* C2: for every pair of recorded snapshots A and B, new_issues is, as a set,
\* the codes of B that are not codes of A, fixed_issues the codes of A that
\* are not codes of B; the two are disjoint and a code of both snapshots is
\* in neither.
C2_NewAndFixedAreSetDifferences ==
    (op = "check_regressions" /\ BothRecorded) =>
        /\ "new_issues" \in DOMAIN ret /\ "fixed_issues" \in DOMAIN ret
        /\ \A c \in ScanCodes :
             /\ c \in Range(ret.new_issues) <=>
                    (Occurs(c, final_scan[1]) /\ ~Occurs(c, initial_scan[1]))
             /\ c \in Range(ret.fixed_issues) <=>
                    (Occurs(c, initial_scan[1]) /\ ~Occurs(c, final_scan[1]))
             /\ (Occurs(c, initial_scan[1]) /\ Occurs(c, final_scan[1])) =>
                    c \notin Range(ret.new_issues) \cup Range(ret.fixed_issues)
        /\ Range(ret.new_issues) \subseteq ScanCodes
        /\ Range(ret.fixed_issues) \subseteq ScanCodes
        /\ Range(ret.new_issues) \cap Range(ret.fixed_issues) = {}

C2_Witness ==
    /\ op = "check_regressions" /\ BothRecorded
    /\ ret.new_issues # <<>>
    /\ ret.fixed_issues # <<>>

\* C9: while record_before or record_after has not been called,
\* check_regressions returns status 'incomplete', does not raise, and the
\* report has no issues_before, issues_after or net_fixed.
C9_IncompleteBeforeBothRecorded ==
    (op = "check_regressions" /\ ~BothRecorded) =>
        /\ "raised" \notin DOMAIN ret
        /\ "status" \in DOMAIN ret
        /\ ret.status = "incomplete"
        /\ DOMAIN ret \cap {"issues_before", "issues_after", "net_fixed"} = {}

C9_Witness ==
    /\ op = "check_regressions"
    /\ called = {"record_before"}
    /\ initial_scan # None /\ initial_scan[1] # <<>>

\* the states of the checker protocol
Empty == initial_scan = None /\ final_scan = None
HasBefore == initial_scan # None /\ final_scan = None
Ready == initial_scan # None /\ final_scan # None
AfterOnly == initial_scan = None /\ final_scan # None

\* C10 as stated: under any sequence of record_before and record_after
\* calls the checker is in Empty, HasBefore or Ready; a state with an
\* after-snapshot and no before-snapshot is unreachable.
C10_AfterOnlyUnreachable ==
    (Empty \/ HasBefore \/ Ready) /\ ~AfterOnly

\* C10 amended: under any sequence of record_before and record_after calls
\* whose first call is record_before, the checker is in Empty, HasBefore or
\* Ready; record_after does not require snapshot A, and a sequence that
\* starts with it is in the after-only state until record_before is called.
C10_OrderedCallsKeepProtocol ==
    /\ first # "record_after" => (Empty \/ HasBefore \/ Ready) /\ ~AfterOnly
    /\ first = "none" <=> Empty
    /\ (first = "record_after" /\ "record_before" \notin called) => AfterOnly

C10_Witness ==
    /\ first = "record_before"
    /\ op = "record_after"
    /\ Ready

\* C11: in state Ready check_regressions is read-only and idempotent: a call
\* scans nothing and leaves both snapshots as they are, and a call repeated
\* right after another returns the same status, the same new and fixed code
\* sets and the same counts.
C11_CheckRegressionsIdempotent ==
    [][(op' = "check_regressions" /\ Ready) =>
          /\ initial_scan' = initial_scan
          /\ final_scan' = final_scan
          /\ called' = called
          /\ "status" \in DOMAIN ret' /\ ret'.status \in {"ok", "warning"}
          /\ op = "check_regressions" =>
                /\ ret'.status = ret.status
                /\ Range(ret'.new_issues) = Range(ret.new_issues)
                /\ Range(ret'.fixed_issues) = Range(ret.fixed_issues)
                /\ ret'.issues_before = ret.issues_before
                /\ ret'.issues_after = ret.issues_after
                /\ ret'.net_fixed = ret.net_fixed]_vars

C11_Witness ==
    /\ op = "check_regressions" /\ repeat
    /\ Ready
    /\ ret.status = "warning"
    /\ ret.fixed_issues # <<>>

\* C12: a report with status ok or warning has issues_before = |A|,
\* issues_after = |B| and net_fixed = issues_before - issues_after, counted
\* per issue instance; net_fixed is negative when B holds more issues.
C12_NetFixedCountsInstances ==
    (op = "check_regressions" /\ "status" \in DOMAIN ret /\ ret.status \in {"ok", "warning"}) =>
        /\ Ready
        /\ ret.issues_before = Len(initial_scan[1])
        /\ ret.issues_after = Len(final_scan[1])
        /\ ret.net_fixed = ret.issues_before - ret.issues_after
        /\ Len(final_scan[1]) > Len(initial_scan[1]) => ret.net_fixed < 0

C12_Witness ==
    /\ op = "check_regressions" /\ Ready
    /\ ret.status = "ok"
    /\ ret.net_fixed < 0
    /\ Len(final_scan[1]) = 2 /\ final_scan[1][1].code = final_scan[1][2].code

\* C19: when the scan tool's output is blank or does not parse, scan_repo
\* returns the empty list and does not raise, and record_before and
\* record_after record a snapshot of size 0.
C19_FailedScanIsEmptySnapshot ==
    /\ (op = "record_before" /\ arg \in {"blank", "garbage"}) =>
           /\ "raised" \notin DOMAIN ret
           /\ initial_scan = Some(<<>>)
           /\ ret.total = 0
    /\ (op = "record_after" /\ arg \in {"blank", "garbage"}) =>
           /\ "raised" \notin DOMAIN ret
           /\ final_scan = Some(<<>>)
           /\ ret.total = 0

C19_Witness ==
    /\ op = "record_after" /\ arg = "garbage"
    /\ initial_scan # None /\ initial_scan[1] # <<>>
    /\ final_scan = Some(<<>>)

\* C20: format_report called in state Empty or HasBefore (or with snapshot B
\* alone) does not raise and returns a report that shows status incomplete.
C20_FormatReportIncomplete ==
    (op = "format_report" /\ ~Ready) =>
        /\ "raised" \notin DOMAIN ret
        /\ "status" \in DOMAIN ret
        /\ ret.status = "INCOMPLETE"

\* C23 as claimed: once captured, snapshot A is changed by no later checker
\* operation, another record_before included, and snapshot B likewise
C23_SnapshotsNeverChange ==
    [][/\ initial_scan # None => initial_scan' = initial_scan
       /\ final_scan # None => final_scan' = final_scan]_vars

\* C23, amended: once captured, snapshot A is changed by no record_after,
\* check_regressions or format_report, and snapshot B by no record_before,
\* check_regressions or format_report; only a further capture of the same
\* snapshot replaces it
C23_OnlyRecaptureReplaces ==
    [][/\ (initial_scan # None /\ op' # "record_before") => initial_scan' = initial_scan
       /\ (final_scan # None /\ op' # "record_after") => final_scan' = final_scan]_vars

C23_Witness ==
    /\ op = "format_report"
    /\ called = {"record_before", "record_after"}
    /\ initial_scan # None /\ final_scan # None
    /\ initial_scan[1] # <<>>
    /\ final_scan # initial_scan

\* the (file, line, code) of an entry of a snapshot
Instance(item) == <<item.filename, item.location.row, item.code>>

Instances(scan) == {Instance(scan[1][i]) : i \in DOMAIN scan[1]}

ScanCodesOf(scan) == {scan[1][i].code : i \in DOMAIN scan[1]}

\* the after-snapshot has an instance the before-snapshot lacks, of a rule
\* code that the before-snapshot has
NewInstanceOfKnownCode ==
    /\ BothRecorded
    /\ Instances(final_scan) \ Instances(initial_scan) # {}
    /\ ScanCodesOf(final_scan) \subseteq ScanCodesOf(initial_scan)

\* C24: the blind spot of code-level diffing: when the after-snapshot has a
\* new instance of a rule code that occurred before, check_regressions
\* returns status ok with empty new_issues, also when there are more
\* instances than before (net_fixed < 0)
C24_NewInstanceOfKnownCodeIsOk ==
    (op = "check_regressions" /\ NewInstanceOfKnownCode) =>
        /\ ret.status = "ok"
        /\ ret.new_issues = <<>>
        /\ ret.net_fixed = Len(initial_scan[1]) - Len(final_scan[1])

C24_Witness ==
    /\ op = "check_regressions" /\ NewInstanceOfKnownCode
    /\ ret.status = "ok" /\ ret.new_issues = <<>>
    /\ ret.net_fixed < 0

----------------------------------------------------------------------------
(* Properties of RuleClassifier and FixOrchestrator, under SpecPlan *)

\* the issue fields of each classified issue of a plan group
Issues(group) == [i \in DOMAIN group |-> Restrict(group[i], IssueKeys)]

Count(seq, x) == Cardinality({i \in DOMAIN seq : seq[i] = x})

IsSafe(issue) == classify(issue.code).category = RuleCategory.SAFE
IsRisky(issue) == classify(issue.code).category = RuleCategory.RISKY
IsSuggest(issue) == classify(issue.code).category = RuleCategory.SUGGEST

\* C3: for every issue list and every safety mode of safe, smart and all, the
\* plan is an exhaustive, disjoint partition: each issue is in exactly one of
\* to_fix, to_review and to_suggest, as many times as in the input, and
\* total_issues = will_fix + needs_review + suggestions = the input's length.
C3_PlanIsPartition ==
    (op = "plan_fixes" /\ safety_mode \in {"safe", "smart", "all"}) =>
        /\ \A x \in Range(arg) \cup Range(Issues(ret.to_fix))
                  \cup Range(Issues(ret.to_review)) \cup Range(Issues(ret.to_suggest)) :
             LET f == Count(Issues(ret.to_fix), x)
                 r == Count(Issues(ret.to_review), x)
                 s == Count(Issues(ret.to_suggest), x)
             IN  /\ f + r + s = Count(arg, x)
                 /\ Cardinality({g \in {f, r, s} : g > 0}) = 1
        /\ ret.summary.total_issues = Len(arg)
        /\ ret.summary.total_issues =
               ret.summary.will_fix + ret.summary.needs_review + ret.summary.suggestions
        /\ ret.summary.will_fix = Len(ret.to_fix)
        /\ ret.summary.needs_review = Len(ret.to_review)
        /\ ret.summary.suggestions = Len(ret.to_suggest)

C3_Witness ==
    /\ op = "plan_fixes" /\ safety_mode = "all"
    /\ Len(arg) = 2 /\ arg[1] = arg[2]
    /\ ret.to_suggest # <<>>

\* C4: in modes safe and smart, to_fix holds exactly the SAFE issues,
\* to_review exactly the RISKY ones and to_suggest exactly the SUGGEST ones;
\* both modes give the same plan, and no RISKY or SUGGEST issue is in to_fix.
C4_SafeAndSmartFixOnlySafe ==
    (op = "plan_fixes" /\ safety_mode \in {"safe", "smart"}) =>
        /\ Issues(ret.to_fix) = SelectSeq(arg, IsSafe)
        /\ Issues(ret.to_review) = SelectSeq(arg, IsRisky)
        /\ Issues(ret.to_suggest) = SelectSeq(arg, IsSuggest)
        /\ \A i \in DOMAIN ret.to_fix : ret.to_fix[i].category = RuleCategory.SAFE
        /\ ret = plan_fixes(arg, IF safety_mode = "safe" THEN "smart" ELSE "safe")

C4_Witness ==
    /\ op = "plan_fixes" /\ safety_mode = "smart"
    /\ ret.to_fix # <<>>
    /\ ret.to_review # <<>>

\* C5: in mode all, to_fix holds every SAFE and every RISKY issue, to_review
\* is empty, and every SUGGEST issue, an unknown rule code included, is in
\* to_suggest and not in to_fix.
C5_AllFixesSafeAndRisky ==
    (op = "plan_fixes" /\ safety_mode = "all") =>
        /\ ret.to_review = <<>>
        /\ \A x \in Range(arg) \cup Range(Issues(ret.to_fix)) :
             Count(Issues(ret.to_fix), x) =
                 IF classify(x.code).category \in {RuleCategory.SAFE, RuleCategory.RISKY}
                 THEN Count(arg, x) ELSE 0
        /\ Issues(ret.to_suggest) = SelectSeq(arg, IsSuggest)
        /\ \A i \in DOMAIN ret.to_fix : ret.to_fix[i].category # RuleCategory.SUGGEST

C5_Witness ==
    /\ op = "plan_fixes" /\ safety_mode = "all"
    /\ \E i \in DOMAIN ret.to_fix : ret.to_fix[i].category = RuleCategory.RISKY
    /\ \E i \in DOMAIN ret.to_suggest : ret.to_suggest[i].code = "X999"

InNoTable(code) ==
    code \notin (DOMAIN SAFE_RULES) \cup (DOMAIN RISKY_RULES) \cup (DOMAIN SUGGEST_RULES)

\* C6: for a rule code in none of the three tables, classify returns category
\* SUGGEST with safety_score 0 and does not raise; the code is never
\* classified SAFE or RISKY.
C6_UnknownCodeIsSuggest ==
    (op = "classify" /\ InNoTable(arg)) =>
        /\ "raised" \notin DOMAIN ret
        /\ ret.code = arg
        /\ ret.category = RuleCategory.SUGGEST
        /\ ret.safety_score = 0

C6_Witness ==
    /\ op = "classify" /\ arg = "X999"
    /\ InNoTable(arg)
    /\ ret.category = RuleCategory.SUGGEST

\* C7: a rule code in both the SAFE and the RISKY table is classified SAFE,
\* with safety_score 100 and the SAFE table's name, whatever entry the merged
\* all_rules holds for it.
C7_SafeTableWins ==
    (op = "classify" /\ arg \in (DOMAIN SAFE_RULES) \cap (DOMAIN RISKY_RULES)) =>
        /\ ret.category = RuleCategory.SAFE
        /\ ret.safety_score = 100
        /\ ret.name = SAFE_RULES[arg].name

C7_Witness ==
    /\ op = "classify" /\ arg = "F401"
    /\ arg \in (DOMAIN SAFE_RULES) \cap (DOMAIN RISKY_RULES)
    /\ all_rules[arg] = RISKY_RULES[arg]
    /\ ret.name # all_rules[arg].name

\* C8: classify returns the same result for a code on every call, whatever
\* classify, group_by_category, get_summary and plan_fixes calls come between,
\* and no call changes the three tables or the issue list it was given.
C8_ClassifyDeterministicNoSideEffects ==
    /\ [](op = "classify" => classified[arg] = Some(ret))
    /\ [][/\ SAFE_RULES' = SAFE_RULES
          /\ RISKY_RULES' = RISKY_RULES
          /\ SUGGEST_RULES' = SUGGEST_RULES
          /\ issues' = issues]_vars

C8_Witness ==
    /\ op = "classify" /\ repeat
    /\ safety_mode = "all"
    /\ issues # <<>>
    /\ classified[arg] = Some(ret)

Groups == {"safe", "risky", "suggest"}

\* C21: group_by_category places every input issue in exactly one of the
\* groups safe, risky and suggest, the one named by the category classify
\* gives its code; the group sizes sum to the input's length, and each
\* classified issue keeps the filename, line, code and message of its issue.
C21_GroupsFollowClassify ==
    (op \in {"group_by_category", "get_summary"}) =>
        LET grouped == IF op = "get_summary" THEN ret.grouped ELSE ret
        IN  /\ DOMAIN grouped = Groups
            /\ \A g \in Groups : \A i \in DOMAIN grouped[g] :
                   /\ grouped[g][i].category = classify(grouped[g][i].code).category
                   /\ value(grouped[g][i].category) = g
                   /\ Issues(grouped[g])[i] \in Range(arg)
            /\ \A x \in Range(arg) : \A g \in Groups :
                   Count(Issues(grouped[g]), x) =
                       IF g = value(classify(x.code).category) THEN Count(arg, x) ELSE 0
            /\ Issues(grouped.safe) = SelectSeq(arg, IsSafe)
            /\ Issues(grouped.risky) = SelectSeq(arg, IsRisky)
            /\ Issues(grouped.suggest) = SelectSeq(arg, IsSuggest)
            /\ Len(grouped.safe) + Len(grouped.risky) + Len(grouped.suggest) = Len(arg)
            /\ op = "get_summary" =>
                   /\ ret.total = Len(arg)
                   /\ ret.safe + ret.risky + ret.suggest = ret.total

C21_Witness ==
    /\ op = "group_by_category"
    /\ Len(arg) = MaxIssues
    /\ ret.safe # <<>>
    /\ \E i \in DOMAIN ret.suggest : ret.suggest[i].code = "X999"

\* the codes of the issues of a plan group
Codes(group) == {group[i].code : i \in DOMAIN group}

WithCode(group, c) == {i \in DOMAIN group : group[i].code = c}

RECURSIVE SumOver(_, _)
SumOver(f, keys) ==
    IF keys = {} THEN 0
    ELSE LET k == CHOOSE x \in keys : TRUE IN f[k] + SumOver(f, keys \ {k})

\* C22: summary.fixes_by_rule maps each rule code to the number of to_fix
\* issues with that code: no entry for a code absent from to_fix, no
\* to_review or to_suggest issue counted, and the values sum to will_fix.
C22_FixesByRuleCountsToFix ==
    (op = "plan_fixes") =>
        LET fixes_by_rule == ret.summary.fixes_by_rule
        IN  /\ DOMAIN fixes_by_rule = Codes(ret.to_fix)
            /\ \A c \in DOMAIN fixes_by_rule :
                   fixes_by_rule[c] = Cardinality(WithCode(ret.to_fix, c))
            /\ \A c \in (Codes(ret.to_review) \cup Codes(ret.to_suggest)) \ Codes(ret.to_fix) :
                   c \notin DOMAIN fixes_by_rule
            /\ SumOver(fixes_by_rule, DOMAIN fixes_by_rule) = ret.summary.will_fix

C22_Witness ==
    /\ op = "plan_fixes"
    /\ "F401" \in DOMAIN ret.summary.fixes_by_rule
    /\ ret.to_review # <<>>

\* C28: plan_fixes keeps its partition for every safety_mode value, a string
\* other than safe, smart and all included: no input issue is missing from
\* all three of to_fix, to_review and to_suggest, and total_issues =
\* will_fix + needs_review + suggestions
C28_PartitionForEveryMode ==
    (op = "plan_fixes") =>
        /\ Range(arg) \subseteq Range(Issues(ret.to_fix)) \cup Range(Issues(ret.to_review))
                                  \cup Range(Issues(ret.to_suggest))
        /\ ret.summary.total_issues =
               ret.summary.will_fix + ret.summary.needs_review + ret.summary.suggestions

\* C29: a rule code of the SUGGEST table is classified from that table:
\* category SUGGEST, safety_score 0 and the table's display name, so that its
\* result differs from that of an unknown code in the display name only
C29_SuggestTableIsUsed ==
    (op = "classify" /\ arg \in DOMAIN SUGGEST_RULES
        /\ arg \notin (DOMAIN SAFE_RULES) \cup (DOMAIN RISKY_RULES)) =>
        /\ ret.category = RuleCategory.SUGGEST
        /\ ret.safety_score = 0
        /\ ret.name = SUGGEST_RULES[arg].name
        /\ ret.name # "Rule " \o arg

----------------------------------------------------------------------------
(* Properties of the v3 pipeline, under SpecPipeline *)

\* positions of the events named e in the run's history
At(e) == {k \in DOMAIN events : events[k].e = e}

Before(e1, e2) == \A k \in At(e2) : \E j \in At(e1) : j < k

\* the fixer invocation failed: the process could not be run, or it exited
\* with a non-zero code
FixerFailed ==
    \/ At("fixer_fault") # {}
    \/ \E k \in At("execute_plan") : events[k].out = "false"

\* C15: when the fixer invocation reports failure the run still executes
\* record_after and then check_regressions, so that a regression report for
\* the after state exists when the run ends
C15_FailedFixStillChecked ==
    (pc = "done" /\ FixerFailed) =>
        /\ At("record_after") # {} /\ final_scan # None
        /\ At("check_regressions") # {} /\ regression_report # None
        /\ Before("record_after", "check_regressions")

\* C16: the before-snapshot is captured before the fixer is started, the
\* fixer process has exited before the after-scan starts, check_regressions
\* is computed only after both snapshots exist, and the fixer is invoked at
\* most once in a run
C16_RunIsStrictlyOrdered ==
    /\ Before("record_before", "fixer_started")
    /\ fixer.state # "idle" => initial_scan # None
    /\ Before("fixer_exited", "record_after")
    /\ final_scan # None => fixer.state = "exited"
    /\ Before("record_before", "check_regressions")
    /\ Before("record_after", "check_regressions")
    /\ regression_report # None => (initial_scan # None /\ final_scan # None)
    /\ Cardinality(At("fixer_started")) <= 1
    /\ Len(fixer_requests) <= 1

C16_Witness ==
    /\ pc = "done"
    /\ fixer.state = "exited" /\ fixer.wrote
    /\ regression_report # None
    /\ outcome = Return(0, "done")

ScanEvents == {"run_ruff", "record_before", "record_after"}

\* C18: a scan of the run (the initial planning scan, the before-scan or the
\* after-scan) whose output is empty or unparsable is taken as zero issues,
\* and does not end the run with an error
C18_ScanProblemNeverAborts ==
    \A k \in DOMAIN events :
        (k = Len(events) /\ events[k].e \in ScanEvents
                        /\ events[k].out \in {"blank", "garbage"}) =>
            /\ outcome # Return(1, "error")
            /\ events[k].e = "run_ruff" => issues = <<>>
            /\ events[k].e = "record_before" => initial_scan = Some(<<>>)
            /\ events[k].e = "record_after" => final_scan = Some(<<>>)

\* the before-scan of the run found issues, its after-scan gave empty or
\* unparsable output, and check_regressions has been called
FailedAfterScan ==
    /\ initial_scan # None /\ initial_scan[1] # <<>>
    /\ regression_report # None
    /\ \E k \in At("record_after") : events[k].out \in {"blank", "garbage"}

\* the report for a tree that became clean: every code of the
\* before-snapshot fixed, nothing new, nothing left
CleanTreeReport(report) ==
    /\ report.status = "ok"
    /\ report.new_issues = <<>>
    /\ Range(report.fixed_issues) = ScanCodesOf(initial_scan)
    /\ report.issues_after = 0
    /\ report.net_fixed = report.issues_before

\* C27 as claimed: when the before-scan found issues and the after-scan
\* fails, the regression report is not the one of a tree that became clean
C27_FailedScanDistinguishable ==
    FailedAfterScan => ~CleanTreeReport(regression_report[1])

\* C27, amended: when the before-scan found issues and the after-scan fails,
\* the after-snapshot is the one of a clean tree and the regression report
\* is the one of a tree that became clean
C27_FailedScanReportedAsClean ==
    FailedAfterScan =>
        /\ final_scan = Some(scan_repo([kind |-> "json", data |-> <<>>]))
        /\ CleanTreeReport(regression_report[1])

C27_Witness ==
    /\ FailedAfterScan
    /\ \E k \in At("record_after") : events[k].out = "garbage"
    /\ tree # <<>>
    /\ CleanTreeReport(regression_report[1])

\* the run has reached its commit step (commit_changes has been called)
ReachedCommit == At("commit") # {}

\* C25: the run reaches its commit and push step, whose commit message says
\* that the safety check passed, only when the regression report has status
\* ok; a run whose report has status warning never commits or pushes
C25_CommitsOnlyWhenReportOk ==
    ReachedCommit => regression_report[1].status = "ok"

\* C30: the run goes on to commit and push only when net_fixed is strictly
\* positive; with net_fixed zero or negative it ends without committing
C30_CommitsOnlyWhenNetFixedPositive ==
    ReachedCommit => regression_report[1].net_fixed > 0

----------------------------------------------------------------------------
(* Properties of the analysis tasks, under SpecTasks *)

\* the fixer of the task has been started and its re-scan has not finished
MidRun(j) == tasks[j].pc \in {"fixing", "rescan"} /\ tasks[j].all_issues # <<>>

C26_OnlySafeIssuesReportedFixed ==
    [][\A i \in Tasks :
          (tasks[i].pc = "rescan" /\ tasks'[i].status = "completed") =>
              LET all_issues == tasks[i].all_issues
                  results == tasks'[i].results[1]
              IN  /\ Len(results) = Len(all_issues)
                  /\ \A k \in DOMAIN results :
                         /\ results[k].issue_code = all_issues[k].code
                         /\ results[k].line_number = all_issues[k].line
                         /\ results[k].is_fixed \in {0, 1}
                         /\ results[k].is_fixed = 1 =>
                                classify(results[k].issue_code).category = RuleCategory.SAFE]_vars

====
